---- MODULE Spec2Model ----
(***************************************************************************)
(* xyz-dl: the Transport Client (api.py), the Session Manager (auth.py),   *)
(* the Catalog Harvester and the Transfer Engine (downloader.py).          *)
(*                                                                         *)
(* The specifications share the variables:                                 *)
(*   SpecApi    one XiaoyuzhouAPI with its XiaoyuzhouAuth handler,          *)
(*              _make_request_with_retry and refresh_access_token;          *)
(*   Spec       XiaoyuzhouDownloader.download: get_all_episodes, then      *)
(*              save_data_json and download_podcast;                        *)
(*   SpecFetch  XiaoyuzhouDownloader.download_file on one task;             *)
(*   SpecBatch  download_episodes_sequential on a list of items;            *)
(*   SpecAuth   the operations of XiaoyuzhouAuth in the order of main.py;   *)
(*   SpecTranscript  one call of get_episode_transcript;                    *)
(*   SpecRun    one run of handle_download down to the exit status.         *)
(***************************************************************************)
EXTENDS Integers, Sequences, FiniteSets, TLC

VARIABLES
    \* ---- auth.py: XiaoyuzhouAuth fields and the credentials file
    auth_access_token, auth_refresh_token, auth_device_id, credentials_file,
    \* ---- api.py: XiaoyuzhouAPI fields and its requests.Session headers
    api_access_token, api_device_id, session_headers, auth_handler,
    \* ---- api.py: one call of get_episodes_page / get_episode_info /
    \*      get_private_media_url through _make_request_with_retry
    rpc, call_kind, kwargs_headers, response, result,
    sent, refreshes, last_refreshed,
    \* ---- downloader.py: get_all_episodes and download
    hpc, max_episodes, all_episodes, load_more_key, page_count,
    requests_log, next_item, fetch_failed,
    snapshot, tasks_started, op_result,
    \* ---- downloader.py: download_file / _download_file_attempt
    fpc, url, resource, range_supported, filepath, temp_filepath,
    filepath0, temp0, max_retries, attempt, resume_pos, mode, body, net_calls,
    range_log, failures, fetch_result,
    \* ---- downloader.py: download_episodes_sequential
    bpc, batch_episodes, prep_i, download_tasks, task_i, success_count,
    episode_metadata, resolve_log, transfer_log, report,
    download_dir, in_flight,
    \* ---- auth.py: the latest refresh_access_token call of the operation
    refresh_call,
    \* ---- auth.py: one operation of XiaoyuzhouAuth, and where main.py
    \*      and the construction of the downloader stand
    apc, auth_call, auth_result, pre, probes, main_pc,
    \* ---- api.py: one call of get_episode_transcript
    tpc, transcript_eid, transcript_media_id, transcript_request,
    transcript_response, transcript_result,
    \* ---- main.py: one run of handle_download, down to the exit status
    run_pc, input_type, save_metadata_enabled, has_api, run_episodes,
    harvest_failure, listing_requested, data_file, metadata_file,
    run_result, handle_success, exit_status

apiVars == <<auth_access_token, auth_refresh_token, auth_device_id,
             credentials_file, api_access_token, api_device_id,
             session_headers, auth_handler, rpc, call_kind, kwargs_headers,
             response, result, sent, refreshes, last_refreshed>>

harvestVars == <<hpc, max_episodes, all_episodes, load_more_key, page_count,
                 requests_log, next_item, fetch_failed,
                 snapshot, tasks_started, op_result>>

fetchVars == <<fpc, url, resource, range_supported, filepath, temp_filepath,
               filepath0, temp0, max_retries, attempt, resume_pos, mode, body,
               net_calls, range_log, failures, fetch_result>>

batchVars == <<bpc, batch_episodes, prep_i, download_tasks, task_i, success_count,
               episode_metadata, resolve_log, transfer_log, report,
               download_dir, in_flight>>

refreshVars == <<refresh_call>>

sessionVars == <<apc, auth_call, auth_result, pre, probes, main_pc>>

transcriptVars == <<tpc, transcript_eid, transcript_media_id,
                    transcript_request, transcript_response,
                    transcript_result>>

\* The parts of the state that the operations listed first never touch.
runVars == <<run_pc, input_type, save_metadata_enabled, has_api, run_episodes,
             harvest_failure, listing_requested, data_file, metadata_file,
             run_result, handle_success, exit_status>>

restVars == <<transcriptVars, runVars>>

vars == <<apiVars, harvestVars, fetchVars, batchVars, refreshVars,
          sessionVars, restVars>>

\* Python's None (also used for an absent header, file or key).
None == "None"

\* An optional value that is not a string: absent, or present.
Nothing == <<>>
Some(x) == <<x>>

\* Python truthiness of an optional string: None and "" are falsy.
Truthy(x) == x # None /\ x # ""

(***************************************************************************)
(* Transport Client and Session Manager                                    *)
(***************************************************************************)

\* Opaque token and device-id values the server or the credentials file
\* can supply.
Tokens == {"tokA", "tokB", "tokC"}
Devices == {"dev1"}

\* HTTP statuses a platform endpoint answers with.
Statuses == {"200", "401", "403", "500"}

CallKinds == {"list", "info", "private"}

\* XiaoyuzhouAPI.update_credentials: the fields and the session headers.
UpdateCredentials(access_token, device_id) ==
    /\ api_access_token' = access_token
    /\ api_device_id' = device_id
    /\ session_headers' = [token |-> access_token, device |-> device_id]

\* The headers= argument the calling method builds before the request.
\* get_episodes_page passes none; get_episode_info and
\* get_private_media_url copy the token and device id held at call time.
KwargsHeaders(kind) ==
    IF kind = "list"
    THEN [token |-> None, device |-> None]
    ELSE [token  |-> IF Truthy(api_access_token) THEN api_access_token ELSE None,
          device |-> IF Truthy(api_device_id) THEN api_device_id ELSE None]

\* requests merges the session headers with the request's headers=; a key
\* given in the request wins.
MergeHeaders(sess, kw) ==
    [token  |-> IF kw.token # None THEN kw.token ELSE sess.token,
     device |-> IF kw.device # None THEN kw.device ELSE sess.device]

\* One self.session.request(method, url, **kwargs) as it goes on the wire.
Wire(status) ==
    [token  |-> MergeHeaders(session_headers, kwargs_headers).token,
     status |-> status,
     after  |-> last_refreshed]

\* raise_for_status() and the except clause of the calling method.
CallResult(status) == IF status = "200" THEN "success" ELSE "failure"

\* Where _make_request_with_retry goes after the first response.
\* (AfterFirstMutant: the variant that sends a request answered with a 500
\* once more.)
AfterFirstMutant(status) ==
    IF status = "500" THEN "retry"
    ELSE IF status # "401" THEN "returned"
    ELSE IF auth_handler THEN "refresh" ELSE "returned"
AfterFirst(status) ==
    IF status # "401" THEN "returned"
    ELSE IF auth_handler THEN "refresh" ELSE "returned"

\* Where _make_request_with_retry goes after the retried response.
\* (AfterRetryLoop: the variant that asks for another refresh on a 401.)
AfterRetryLoop(status) == IF status = "401" THEN "refresh" ELSE "returned"
AfterRetry(status) == "returned"

BeginCall(kind) ==
    /\ rpc = "idle"
    /\ rpc' = "first"
    /\ call_kind' = kind
    /\ kwargs_headers' = KwargsHeaders(kind)
    /\ response' = None
    /\ result' = None
    /\ sent' = <<>>
    /\ refreshes' = 0
    /\ refresh_call' = Nothing
    /\ auth_call' = None
    /\ auth_result' = None
    /\ pre' = Nothing
    /\ probes' = <<>>
    /\ UNCHANGED <<auth_access_token, auth_refresh_token, auth_device_id,
                   credentials_file, api_access_token, api_device_id,
                   session_headers, auth_handler, last_refreshed>>
    /\ UNCHANGED <<harvestVars, fetchVars, batchVars, restVars>>
    /\ UNCHANGED <<apc, main_pc>>

\* api.py 52-56, 59: the first request and the test of its status.
FirstRequest ==
    /\ rpc = "first"
    /\ \/ \E status \in Statuses :
             /\ sent' = Append(sent, Wire(status))
             /\ response' = status
             /\ rpc' = AfterFirst(status)
             /\ result' = IF AfterFirst(status) = "returned"
                          THEN CallResult(status) ELSE None
       \/ /\ sent' = Append(sent, Wire("exception"))
          /\ rpc' = "raised"
          /\ result' = "failure"
          /\ UNCHANGED response
    /\ UNCHANGED <<auth_access_token, auth_refresh_token, auth_device_id,
                   credentials_file, api_access_token, api_device_id,
                   session_headers, auth_handler, call_kind, kwargs_headers,
                   refreshes, last_refreshed>>
    /\ UNCHANGED <<harvestVars, fetchVars, batchVars, restVars>>
    /\ UNCHANGED <<refreshVars, sessionVars>>

NoFile == [access_token |-> None, refresh_token |-> None, device_id |-> None]

\* auth.py 72-94: save_credentials writes the file when both the access
\* token and the device id are held; the write itself may fail.
SaveCredentials(access, refresh, device, write_ok) ==
    IF Truthy(access) /\ Truthy(device) /\ write_ok
    THEN [access_token |-> access, refresh_token |-> refresh,
          device_id |-> device]
    ELSE credentials_file

\* auth.py 227-244: the 200 branch of refresh_access_token.
RefreshSuccess(new_access, new_refresh, write_ok) ==
    /\ auth_access_token' = new_access
    /\ auth_refresh_token' = IF Truthy(new_refresh) THEN new_refresh
                             ELSE auth_refresh_token
    /\ UpdateCredentials(new_access, auth_device_id)
    /\ credentials_file' =
          SaveCredentials(new_access,
                          IF Truthy(new_refresh) THEN new_refresh
                          ELSE auth_refresh_token,
                          auth_device_id, write_ok)
    /\ last_refreshed' = new_access
    /\ UNCHANGED auth_device_id

\* auth.py 204-206, 245-256: every return False of refresh_access_token
\* comes before any assignment.  (RefreshFailureMutant: the variant that
\* drops the access token it could not renew.)
RefreshFailureMutant ==
    /\ auth_access_token' = None
    /\ UNCHANGED <<auth_refresh_token, auth_device_id, credentials_file,
                   api_access_token, api_device_id, session_headers,
                   last_refreshed>>
RefreshFailure ==
    UNCHANGED <<auth_access_token, auth_refresh_token, auth_device_id,
                credentials_file, api_access_token, api_device_id,
                session_headers, last_refreshed>>

\* Everything a refresh could touch: the manager's fields, the client's
\* fields and headers, and the credentials file.
Credentials ==
    [access_token |-> auth_access_token,
     refresh_token |-> auth_refresh_token,
     device_id |-> auth_device_id,
     api_access_token |-> api_access_token,
     api_device_id |-> api_device_id,
     session_headers |-> session_headers,
     credentials_file |-> credentials_file]

\* auth.py 221-229: what requests.post to the refresh endpoint yields: an
\* exception, a status other than 200, or a 200 whose body may or may not
\* carry the new tokens.
RefreshReplies ==
    [status : (Statuses \ {"200"}) \cup {"exception"},
     access : {None}, refresh : {None}]
    \cup [status : {"200"},
          access : {"tokB", None}, refresh : {"tokC", None}]

\* auth.py 204-206: without a refresh token nothing is posted.
\* (RefreshPostedMutant: the variant that posts all the same.)
RefreshPostedMutant(reply) == reply.status
RefreshPosted(reply) ==
    IF Truthy(auth_refresh_token) THEN reply.status ELSE "none"

\* auth.py 204-256: the value refresh_access_token returns.
RefreshResult(reply) ==
    IF /\ Truthy(auth_refresh_token)
       /\ reply.status = "200"
       /\ Truthy(reply.access)
    THEN "True" ELSE "False"

\* auth.py 202-256: refresh_access_token as a whole.
RefreshAccessToken(reply, write_ok) ==
    /\ IF RefreshResult(reply) = "True"
       THEN RefreshSuccess(reply.access, reply.refresh, write_ok)
       ELSE RefreshFailure
    /\ refresh_call' = Some([posted |-> RefreshPosted(reply),
                             returned |-> RefreshResult(reply)])

\* api.py 61-66: the request is sent again only when refresh_access_token
\* returned True; otherwise the 401 already held is returned.
\* (AfterRefreshMutant: the variant that sends it again in any case.)
AfterRefreshMutant(refreshed) == "retry"
AfterRefresh(refreshed) == IF refreshed = "True" THEN "retry" ELSE "returned"

\* api.py 59-68 with auth.py 202-256: the handler's refresh_access_token,
\* then either the retry or the original 401.
Refresh ==
    /\ rpc = "refresh"
    /\ refreshes' = refreshes + 1
    /\ \E reply \in RefreshReplies, write_ok \in BOOLEAN :
          /\ RefreshAccessToken(reply, write_ok)
          /\ rpc' = AfterRefresh(RefreshResult(reply))
          /\ result' = IF AfterRefresh(RefreshResult(reply)) = "retry"
                       THEN result ELSE CallResult(response)
    /\ UNCHANGED <<auth_handler, call_kind, kwargs_headers, response, sent>>
    /\ UNCHANGED <<harvestVars, fetchVars, batchVars, restVars>>
    /\ UNCHANGED sessionVars

\* api.py 64, 68: the retried request; whatever it yields is returned.
Retry ==
    /\ rpc = "retry"
    /\ \/ \E status \in Statuses :
             /\ sent' = Append(sent, Wire(status))
             /\ response' = status
             /\ rpc' = AfterRetry(status)
             /\ result' = IF AfterRetry(status) = "returned"
                          THEN CallResult(status) ELSE None
       \/ /\ sent' = Append(sent, Wire("exception"))
          /\ rpc' = "raised"
          /\ result' = "failure"
          /\ UNCHANGED response
    /\ UNCHANGED <<auth_access_token, auth_refresh_token, auth_device_id,
                   credentials_file, api_access_token, api_device_id,
                   session_headers, auth_handler, call_kind, kwargs_headers,
                   refreshes, last_refreshed>>
    /\ UNCHANGED <<harvestVars, fetchVars, batchVars, restVars>>
    /\ UNCHANGED <<refreshVars, sessionVars>>

\* The calling method has its result; the client is free for the next call.
EndCall ==
    /\ rpc \in {"returned", "raised"}
    /\ rpc' = "idle"
    /\ UNCHANGED <<auth_access_token, auth_refresh_token, auth_device_id,
                   credentials_file, api_access_token, api_device_id,
                   session_headers, auth_handler, call_kind, kwargs_headers,
                   response, result, sent, refreshes, last_refreshed>>
    /\ UNCHANGED <<harvestVars, fetchVars, batchVars, restVars>>
    /\ UNCHANGED <<refreshVars, sessionVars>>

(***************************************************************************)
(* Transport Client: get_episode_transcript                                *)
(***************************************************************************)

Eids == {"e1", "e2", "e3"}
MediaIds == {"m1", "m2", "m3"}

\* The request get_episode_transcript(eid, media_id) issues.
\* (TranscriptRequestMutant: the variant that sends the eid alone.)
TranscriptRequestMutant(eid, media_id) ==
    [method |-> "POST", path |-> "/v1/episode-transcript/get",
     json |-> [eid |-> eid, mediaId |-> None]]
TranscriptRequest(eid, media_id) ==
    [method |-> "POST", path |-> "/v1/episode-transcript/get",
     json |-> [eid |-> eid, mediaId |-> media_id]]

\* What comes back: a 200 with a payload (with or without a transcript
\* address), an error status with its text, or a transport exception.
TranscriptReplies ==
    [status : {"200"}, payload : {"transcript", "empty"}, error : {None}]
    \cup [status : Statuses \ {"200"}, payload : {None},
          error : {"HTTPError"}]
    \cup [status : {"exception"}, payload : {None},
          error : {"ConnectionError"}]

\* The result dictionary: the payload on success, str(e) otherwise.
\* (TranscriptResultMutant: the variant that reports an error status as a
\* success without data.)
TranscriptResultMutant(reply) ==
    [success |-> reply.status # "exception", data |-> reply.payload,
     error |-> None]
TranscriptResult(reply) ==
    IF reply.status = "200"
    THEN [success |-> TRUE, data |-> reply.payload, error |-> None]
    ELSE [success |-> FALSE, data |-> None, error |-> reply.error]

TranscriptSend ==
    /\ tpc = "call"
    /\ tpc' = "sent"
    /\ transcript_request' =
          TranscriptRequest(transcript_eid, transcript_media_id)
    /\ UNCHANGED <<transcript_eid, transcript_media_id, transcript_response,
                   transcript_result>>
    /\ UNCHANGED <<apiVars, harvestVars, fetchVars, batchVars, refreshVars,
                   sessionVars, runVars>>

TranscriptReceive ==
    /\ tpc = "sent"
    /\ tpc' = "received"
    /\ transcript_response' \in TranscriptReplies
    /\ UNCHANGED <<transcript_eid, transcript_media_id, transcript_request,
                   transcript_result>>
    /\ UNCHANGED <<apiVars, harvestVars, fetchVars, batchVars, refreshVars,
                   sessionVars, runVars>>

TranscriptReturn ==
    /\ tpc = "received"
    /\ tpc' = "returned"
    /\ transcript_result' = TranscriptResult(transcript_response)
    /\ UNCHANGED <<transcript_eid, transcript_media_id, transcript_request,
                   transcript_response>>
    /\ UNCHANGED <<apiVars, harvestVars, fetchVars, batchVars, refreshVars,
                   sessionVars, runVars>>

(***************************************************************************)
(* Session Manager: the operations of XiaoyuzhouAuth                       *)
(***************************************************************************)

callVars == <<auth_handler, call_kind, kwargs_headers, response, result,
              sent, refreshes>>

\* The device id generate_device_id() makes up at the first login.
GeneratedDevice == "gen1"

\* An operation of the manager starts: what it found, and nothing probed
\* or refreshed yet.
Begin(name) ==
    /\ apc = "idle"
    /\ auth_call' = name
    /\ pre' = Some(Credentials)
    /\ probes' = <<>>
    /\ refresh_call' = Nothing

\* Where main.py goes once the operation has returned res.
\* interactive_mode (main.py 76-96): load_credentials, then
\* ensure_valid_token if it loaded or interactive_login if not, then the
\* downloader; handle_login (main.py 254): interactive_login and no more.
\* downloader.py 38-45: the downloader asks ensure_authenticated, then
\* get_api (which asks it again), and only then holds the client it makes
\* its calls through.
AfterCall(name, res) ==
    CASE name = "load_credentials" ->
           IF res = "True" THEN "loaded" ELSE "login_needed"
      [] name = "ensure_valid_token" ->
           IF res = "True" THEN "construct" ELSE "login_needed"
      [] name = "interactive_login" ->
           IF res = "True" /\ main_pc # "login_only" THEN "construct"
           ELSE "exit"
      [] name = "ensure_authenticated" ->
           IF res = "False" THEN "exit"
           ELSE IF main_pc = "authenticated" THEN "ready"
           ELSE "authenticated"

\* The operation returns res.
Finish(res) ==
    /\ apc' = "idle"
    /\ auth_result' = res
    /\ main_pc' = AfterCall(auth_call, res)
    /\ rpc' = IF AfterCall(auth_call, res) = "ready" THEN "idle" ELSE rpc

\* auth.py 294-296
IsAuthenticated == Truthy(auth_access_token) /\ Truthy(auth_device_id)

\* auth.py 96-117: load_credentials.  The three fields are assigned from
\* the file before the test that both are there.
LoadResult ==
    IF /\ credentials_file # NoFile
       /\ Truthy(credentials_file.access_token)
       /\ Truthy(credentials_file.device_id)
    THEN "True" ELSE "False"

LoadCredentials ==
    IF credentials_file # NoFile
    THEN /\ auth_access_token' = credentials_file.access_token
         /\ auth_refresh_token' = credentials_file.refresh_token
         /\ auth_device_id' = credentials_file.device_id
         /\ IF LoadResult = "True"
            THEN UpdateCredentials(credentials_file.access_token,
                                   credentials_file.device_id)
            ELSE UNCHANGED <<api_access_token, api_device_id,
                             session_headers>>
    ELSE UNCHANGED <<auth_access_token, auth_refresh_token, auth_device_id,
                     api_access_token, api_device_id, session_headers>>

\* main.py 80: load_credentials called on its own.
DoLoadCredentials ==
    /\ main_pc = "start"
    /\ Begin("load_credentials")
    /\ LoadCredentials
    /\ auth_result' = LoadResult
    /\ main_pc' = AfterCall("load_credentials", LoadResult)
    /\ UNCHANGED <<apc, rpc, credentials_file, last_refreshed>>
    /\ UNCHANGED callVars
    /\ UNCHANGED <<harvestVars, fetchVars, batchVars, restVars>>

\* auth.py 281-284: ensure_valid_token starts.  main.py 85 calls it after
\* a load that succeeded; as a public method it is also followed from a
\* new manager and after a load that did not succeed.
BeginEnsureValidToken ==
    /\ main_pc \in {"start", "loaded", "login_needed"}
    /\ Begin("ensure_valid_token")
    /\ apc' = IF Truthy(auth_access_token) THEN "verify" ELSE "refresh"
    /\ auth_result' = None
    /\ UNCHANGED <<main_pc, rpc>>
    /\ UNCHANGED <<auth_access_token, auth_refresh_token, auth_device_id,
                   credentials_file, api_access_token, api_device_id,
                   session_headers, last_refreshed>>
    /\ UNCHANGED callVars
    /\ UNCHANGED <<harvestVars, fetchVars, batchVars, restVars>>

\* auth.py 298-306 (downloader.py 38, 42): ensure_authenticated starts.
BeginEnsureAuthenticated ==
    /\ main_pc \in {"start", "construct", "authenticated"}
    /\ Begin("ensure_authenticated")
    /\ apc' = IF IsAuthenticated THEN "verify" ELSE "load"
    /\ auth_result' = None
    /\ UNCHANGED <<main_pc, rpc>>
    /\ UNCHANGED <<auth_access_token, auth_refresh_token, auth_device_id,
                   credentials_file, api_access_token, api_device_id,
                   session_headers, last_refreshed>>
    /\ UNCHANGED callVars
    /\ UNCHANGED <<harvestVars, fetchVars, batchVars, restVars>>

\* auth.py 301-306: ensure_authenticated loads, then tests again.
LoadStep ==
    /\ apc = "load"
    /\ LoadCredentials
    /\ apc' = IF Truthy(auth_access_token') /\ Truthy(auth_device_id')
              THEN "verify" ELSE "prompt"
    /\ UNCHANGED <<auth_call, auth_result, pre, probes, main_pc, rpc,
                   refresh_call, credentials_file, last_refreshed>>
    /\ UNCHANGED callVars
    /\ UNCHANGED <<harvestVars, fetchVars, batchVars, restVars>>

\* The replies the profile endpoint gives to the probe.
ProbeReplies == Statuses \cup {"exception"}

\* auth.py 276, 286-292: a 200 makes ensure_valid_token return True,
\* anything else sends it to refresh_access_token.  (AfterVerifyMutant:
\* the variant that refreshes whatever the probe said.)
AfterVerifyMutant(status) == "refresh"
AfterVerify(status) == IF status = "200" THEN "returned" ELSE "refresh"

\* auth.py 258-279 within 286-292: verify_token.
VerifyToken ==
    /\ apc = "verify"
    /\ IF ~IsAuthenticated
       THEN /\ apc' = "refresh"
            /\ UNCHANGED <<probes, auth_result, main_pc, rpc>>
       ELSE \E status \in ProbeReplies :
              /\ probes' = Append(probes, status)
              /\ IF AfterVerify(status) = "returned"
                 THEN Finish("True")
                 ELSE /\ apc' = "refresh"
                      /\ UNCHANGED <<auth_result, main_pc, rpc>>
    /\ UNCHANGED <<auth_call, pre, refresh_call>>
    /\ UNCHANGED <<auth_access_token, auth_refresh_token, auth_device_id,
                   credentials_file, api_access_token, api_device_id,
                   session_headers, last_refreshed>>
    /\ UNCHANGED callVars
    /\ UNCHANGED <<harvestVars, fetchVars, batchVars, restVars>>

\* auth.py 284, 292 with 306-310: refresh_access_token for
\* ensure_valid_token; when it fails, ensure_authenticated goes on to ask
\* for a login.
EnsureValidRefresh ==
    /\ apc = "refresh"
    /\ \E reply \in RefreshReplies, write_ok \in BOOLEAN :
          /\ RefreshAccessToken(reply, write_ok)
          /\ IF RefreshResult(reply) = "True"
             THEN Finish("True")
             ELSE IF auth_call = "ensure_authenticated"
                  THEN /\ apc' = "prompt"
                       /\ UNCHANGED <<auth_result, main_pc, rpc>>
                  ELSE Finish("False")
    /\ UNCHANGED <<auth_call, pre, probes>>
    /\ UNCHANGED callVars
    /\ UNCHANGED <<harvestVars, fetchVars, batchVars, restVars>>

\* auth.py 309-315: "login now? (y/N)".
Prompt ==
    /\ apc = "prompt"
    /\ \E answer \in {"y", "n"} :
          IF answer = "y"
          THEN /\ apc' = "login"
               /\ UNCHANGED <<auth_result, main_pc, rpc>>
          ELSE Finish("False")
    /\ UNCHANGED <<auth_call, pre, probes, refresh_call>>
    /\ UNCHANGED <<auth_access_token, auth_refresh_token, auth_device_id,
                   credentials_file, api_access_token, api_device_id,
                   session_headers, last_refreshed>>
    /\ UNCHANGED callVars
    /\ UNCHANGED <<harvestVars, fetchVars, batchVars, restVars>>

\* main.py 89, 94, 254: interactive_login called on its own.
BeginInteractiveLogin ==
    /\ main_pc \in {"start", "login_needed"}
    /\ Begin("interactive_login")
    /\ apc' = "login"
    /\ auth_result' = None
    /\ main_pc' = IF main_pc = "start" THEN "login_only" ELSE main_pc
    /\ UNCHANGED rpc
    /\ UNCHANGED <<auth_access_token, auth_refresh_token, auth_device_id,
                   credentials_file, api_access_token, api_device_id,
                   session_headers, last_refreshed>>
    /\ UNCHANGED callVars
    /\ UNCHANGED <<harvestVars, fetchVars, batchVars, restVars>>

\* api.py 163-180: a 200 from the login endpoint is a success whether or
\* not the response headers carry the tokens.
LoginReplies ==
    [success : {FALSE}, access : {None}, refresh : {None}]
    \cup [success : {TRUE},
          access : {"tokC", None}, refresh : {"tokB", None}]

\* auth.py 119-168 with 42-70: interactive_login up to the return of
\* login_with_sms.  Without a successful login (input rejected, the code
\* not sent, the attempts used up, Ctrl-C) it returns False and nothing
\* has changed; a successful login sets the tokens, makes up a device id
\* if none is held, and hands both to the client.
LoginWithSms ==
    /\ apc = "login"
    /\ \E reply \in LoginReplies :
          IF reply.success
          THEN /\ auth_access_token' = reply.access
               /\ auth_refresh_token' = reply.refresh
               /\ auth_device_id' = IF Truthy(auth_device_id)
                                    THEN auth_device_id
                                    ELSE GeneratedDevice
               /\ UpdateCredentials(reply.access, auth_device_id')
               /\ apc' = "login_save"
               /\ UNCHANGED <<auth_result, main_pc, rpc>>
          ELSE /\ Finish("False")
               /\ UNCHANGED <<auth_access_token, auth_refresh_token,
                              auth_device_id, api_access_token,
                              api_device_id, session_headers>>
    /\ UNCHANGED <<auth_call, pre, probes, refresh_call, credentials_file,
                   last_refreshed>>
    /\ UNCHANGED callVars
    /\ UNCHANGED <<harvestVars, fetchVars, batchVars, restVars>>

\* auth.py 168-171: save_credentials (its result unused), return True.
LoginSave ==
    /\ apc = "login_save"
    /\ \E write_ok \in BOOLEAN :
          credentials_file' =
              SaveCredentials(auth_access_token, auth_refresh_token,
                              auth_device_id, write_ok)
    /\ Finish("True")
    /\ UNCHANGED <<auth_call, pre, probes, refresh_call>>
    /\ UNCHANGED <<auth_access_token, auth_refresh_token, auth_device_id,
                   api_access_token, api_device_id, session_headers,
                   last_refreshed>>
    /\ UNCHANGED callVars
    /\ UNCHANGED <<harvestVars, fetchVars, batchVars, restVars>>

(***************************************************************************)
(* Catalog Harvester: get_all_episodes, and download on top of it          *)
(***************************************************************************)

\* The most pages one harvest is followed through.
MaxPages == 3

\* api.py 208: the limit get_episodes_page asks for; get_all_episodes
\* passes none, so every listing request carries the default.
PageLimit == 25

\* downloader.py 306: the length under which get_all_episodes takes a
\* page for the last one.
ShortPageThreshold == 15

\* The page lengths the listing endpoint answers with.
PageSizes == {0, 10, 14, 15, 20, 24, 25}

\* The --max-episodes values (argparse type=int) and its absence.
MaxEpisodesChoices == {Nothing, Some(-1), Some(0), Some(1), Some(40)}

\* An Item Record is named by a number; the server hands out fresh ones in
\* return order. Its eid and pubDate are read from it.
Eid(item) == item
PubDate(item) == item

\* The page of n items the server returns when next_item items went before.
Page(n) == [i \in 1..n |-> next_item + i]

\* Python's lst[:m] for any integer m.
\* (SliceMutant: the variant that keeps the whole list.)
SliceMutant(lst, m) == lst
Slice(lst, m) ==
    IF m >= 0
    THEN SubSeq(lst, 1, IF m < Len(lst) THEN m ELSE Len(lst))
    ELSE SubSeq(lst, 1, IF Len(lst) + m > 0 THEN Len(lst) + m ELSE 0)

\* downloader.py 301: max_episodes and len(all_episodes) >= max_episodes.
ReachedMax(episodes) ==
    /\ max_episodes # Nothing
    /\ max_episodes[1] # 0
    /\ Len(episodes) >= max_episodes[1]

\* downloader.py 306: the page is taken for the last one.
LastPage(episodes) == Len(episodes) < ShortPageThreshold

\* downloader.py 310-315: the loadMoreKey from the page's last item.
\* (LoadMoreKeyMutant: the variant that takes it from the first item.)
LoadMoreKeyMutant(episodes) ==
    Some([direction |-> "NEXT",
          pubDate |-> PubDate(episodes[1]),
          id |-> Eid(episodes[1])])
LoadMoreKey(episodes) ==
    Some([direction |-> "NEXT",
          pubDate |-> PubDate(episodes[Len(episodes)]),
          id |-> Eid(episodes[Len(episodes)])])

\* api.py 212-223: the payload of one listing request.
Payload(key) == [loadMoreKey |-> key, limit |-> PageLimit]

\* downloader.py 279-322: one turn of the while loop. The listing call
\* either fails (success False), raises inside the try, or returns a page.
FetchPage ==
    /\ hpc = "loop"
    /\ page_count < MaxPages
    /\ page_count' = page_count + 1
    /\ \/ \E how \in {"fail", "raise"} :
             /\ requests_log' = Append(requests_log,
                    [payload |-> Payload(load_more_key), outcome |-> how,
                     page |-> <<>>])
             /\ fetch_failed' = TRUE
             /\ hpc' = "done"
             /\ UNCHANGED <<all_episodes, load_more_key, next_item>>
       \/ \E n \in PageSizes :
             LET episodes == Page(n)
                 extended == all_episodes \o episodes
             IN  /\ requests_log' = Append(requests_log,
                        [payload |-> Payload(load_more_key), outcome |-> "ok",
                         page |-> episodes])
                 /\ next_item' = next_item + n
                 /\ UNCHANGED fetch_failed
                 /\ IF episodes = <<>>
                    THEN /\ hpc' = "done"
                         /\ UNCHANGED <<all_episodes, load_more_key>>
                    ELSE IF ReachedMax(extended)
                    THEN /\ all_episodes' = Slice(extended, max_episodes[1])
                         /\ hpc' = "done"
                         /\ UNCHANGED load_more_key
                    ELSE IF LastPage(episodes)
                    THEN /\ all_episodes' = extended
                         /\ hpc' = "done"
                         /\ UNCHANGED load_more_key
                    ELSE /\ all_episodes' = extended
                         /\ load_more_key' = LoadMoreKey(episodes)
                         /\ UNCHANGED hpc
    /\ UNCHANGED <<max_episodes, snapshot, tasks_started, op_result>>
    /\ UNCHANGED <<apiVars, fetchVars, batchVars, restVars>>
    /\ UNCHANGED <<refreshVars, sessionVars>>

\* downloader.py 587-600 with 226-241: download takes whatever
\* get_all_episodes returned and writes the catalog snapshot.
SaveDataJson ==
    /\ hpc = "done"
    /\ hpc' = "saved"
    /\ snapshot' = Some([episodes |-> all_episodes,
                         total_count |-> Len(all_episodes)])
    /\ UNCHANGED <<max_episodes, all_episodes, load_more_key, page_count,
                   requests_log, next_item, fetch_failed, tasks_started,
                   op_result>>
    /\ UNCHANGED <<apiVars, fetchVars, batchVars, restVars>>
    /\ UNCHANGED <<refreshVars, sessionVars>>

\* downloader.py 602 with 456-510 and 394-403: download_podcast returns
\* None for an empty list; otherwise download_episodes_sequential calls
\* download_file for the task of every episode that carries a URL (here
\* every harvested episode does).
DownloadPodcast ==
    /\ hpc = "saved"
    /\ hpc' = "finished"
    /\ IF all_episodes = <<>>
       THEN /\ op_result' = "None"
            /\ UNCHANGED tasks_started
       ELSE /\ op_result' = "summary"
            /\ tasks_started' = Len(all_episodes)
    /\ UNCHANGED <<max_episodes, all_episodes, load_more_key, page_count,
                   requests_log, next_item, fetch_failed, snapshot>>
    /\ UNCHANGED <<apiVars, fetchVars, batchVars, restVars>>
    /\ UNCHANGED <<refreshVars, sessionVars>>

(***************************************************************************)
(* Transfer Engine: download_file and _download_file_attempt               *)
(***************************************************************************)

\* The longest resource, in bytes (one chunk of iter_content is one byte).
MaxSize == 3

\* config.py 28: download.max_retries as shipped; a user configuration
\* may lower it.
DefaultMaxRetries == 3

\* A path holds no file (<<>>) or a file with its bytes (<<bytes>>).
Absent == <<>>
File(bytes) == <<bytes>>
Exists(path) == path # Absent
Bytes(path) == path[1]

\* The resource of m bytes behind the URL: bytes 1..m, all different.
Resource(m) == [i \in 1..m |-> i]

Prefix(bytes, n) == SubSeq(bytes, 1, n)
Suffix(bytes, n) == SubSeq(bytes, n + 1, Len(bytes))

\* downloader.py 135: the destination is there already.
\* (AlreadyThereMutant: the variant without the test.)
AlreadyThereMutant == FALSE
AlreadyThere == Exists(filepath)

\* downloader.py 166-168: the offset of the Range header, None without
\* a provisional file.
\* (ResumeHeaderMutant: the variant that always asks from offset 0.)
ResumeHeaderMutant == IF Exists(temp_filepath) THEN Some(0) ELSE Nothing
ResumeHeader ==
    IF Exists(temp_filepath) THEN Some(Len(Bytes(temp_filepath))) ELSE Nothing

\* downloader.py 202: 'ab' if resume_header and temp_filepath.exists().
OpenMode(header) ==
    IF header # Nothing /\ Exists(temp_filepath) THEN "ab" ELSE "wb"

\* open(temp_filepath, mode): 'wb' truncates or creates, 'ab' keeps.
Opened(m) ==
    IF m = "ab" /\ Exists(temp_filepath) THEN temp_filepath ELSE File(<<>>)

\* The file endpoint answers a GET with the given Range header with a
\* body (200 or 206) unless the range starts at or past the end (416, on
\* which raise_for_status raises).
ServerAnswers(header) ==
    IF header = Nothing \/ ~range_supported THEN TRUE
    ELSE header[1] < Len(resource)

\* The body of that answer: the bytes from the offset on when the endpoint
\* honours the Range header, the whole resource when it does not.
ServerBody(header) ==
    IF header = Nothing \/ ~range_supported THEN resource
    ELSE Suffix(resource, header[1])

\* downloader.py 206-212: the rename follows the last chunk.
\* (StreamEndedMutant: the variant that renames before the last chunk.)
StreamEndedMutant == TRUE
StreamEnded == body = <<>>

\* downloader.py 147-155: what download_file does with an exception of
\* the given kind raised by the attempt numbered attempt.
\* (AfterFailureMutant: the variant that gives up on an HTTP error status.)
AfterFailureMutant(kind) ==
    IF attempt = max_retries \/ kind = "http" THEN "done" ELSE "attempt"
AfterFailure(kind) ==
    IF attempt = max_retries THEN "done" ELSE "attempt"

\* downloader.py 131-144: the guards of download_file before the loop.
DownloadFile ==
    /\ fpc = "call"
    /\ IF ~Truthy(url)
       THEN /\ fpc' = "done"
            /\ fetch_result' = "False"
       ELSE IF AlreadyThere
       THEN /\ fpc' = "done"
            /\ fetch_result' = "True"
       ELSE /\ fpc' = "attempt"
            /\ UNCHANGED fetch_result
    /\ UNCHANGED <<url, resource, range_supported, filepath, temp_filepath,
                   filepath0, temp0, max_retries, attempt, resume_pos, mode,
                   body, net_calls, range_log, failures>>
    /\ UNCHANGED <<apiVars, harvestVars, batchVars, restVars>>
    /\ UNCHANGED <<refreshVars, sessionVars>>

\* The except clause of download_file for an exception of the attempt.
Failed(kind) ==
    /\ failures' = Append(failures, kind)
    /\ fpc' = AfterFailure(kind)
    /\ IF AfterFailure(kind) = "done"
       THEN /\ fetch_result' = "False"
            /\ UNCHANGED attempt
       ELSE /\ attempt' = attempt + 1
            /\ UNCHANGED fetch_result

\* downloader.py 162-205: the request of one attempt. It raises (the
\* transport fails, or raise_for_status meets an error status) or the file
\* is opened for the body to come.
AttemptRequest ==
    /\ fpc = "attempt"
    /\ net_calls' = net_calls + 1
    /\ range_log' = Append(range_log, ResumeHeader)
    /\ resume_pos' = IF ResumeHeader = Nothing THEN 0 ELSE ResumeHeader[1]
    /\ \/ /\ \E kind \in {"transport", "http"} : Failed(kind)
          /\ UNCHANGED <<temp_filepath, mode, body>>
       \/ /\ ServerAnswers(ResumeHeader)
          /\ body' = ServerBody(ResumeHeader)
          /\ mode' = OpenMode(ResumeHeader)
          /\ temp_filepath' = Opened(OpenMode(ResumeHeader))
          /\ fpc' = "streaming"
          /\ UNCHANGED <<attempt, failures, fetch_result>>
    /\ UNCHANGED <<url, resource, range_supported, filepath, filepath0,
                   temp0, max_retries>>
    /\ UNCHANGED <<apiVars, harvestVars, batchVars, restVars>>
    /\ UNCHANGED <<refreshVars, sessionVars>>

\* downloader.py 206-209: one chunk is written to the provisional file.
WriteChunk ==
    /\ fpc = "streaming"
    /\ body # <<>>
    /\ temp_filepath' = File(Append(Bytes(temp_filepath), Head(body)))
    /\ body' = Tail(body)
    /\ UNCHANGED <<fpc, url, resource, range_supported, filepath, filepath0,
                   temp0, max_retries, attempt, resume_pos, mode, net_calls,
                   range_log, failures, fetch_result>>
    /\ UNCHANGED <<apiVars, harvestVars, batchVars, restVars>>
    /\ UNCHANGED <<refreshVars, sessionVars>>

\* downloader.py 205, 222-224: the with block closes the provisional file
\* and the except clause re-raises; nothing removes or truncates the file.
\* (AbandonedMutant: the variant that removes it.)
AbandonedMutant == Absent
Abandoned == temp_filepath

\* downloader.py 222-224: an exception while streaming, writing, closing
\* or renaming; the bytes written so far stay in the provisional file.
StreamException ==
    /\ fpc = "streaming"
    /\ Failed("stream")
    /\ temp_filepath' = Abandoned
    /\ UNCHANGED <<url, resource, range_supported, filepath,
                   filepath0, temp0, max_retries, resume_pos, mode, body,
                   net_calls, range_log>>
    /\ UNCHANGED <<apiVars, harvestVars, batchVars, restVars>>
    /\ UNCHANGED <<refreshVars, sessionVars>>

\* downloader.py 212: rename moves the file; nothing stays under the
\* provisional name.  (RenamedFromMutant: the variant that copies.)
RenamedFromMutant == temp_filepath
RenamedFrom == Absent

\* downloader.py 212: temp_filepath.rename(filepath).
Rename ==
    /\ fpc = "streaming"
    /\ StreamEnded
    /\ filepath' = temp_filepath
    /\ temp_filepath' = RenamedFrom
    /\ fpc' = "renamed"
    /\ UNCHANGED <<url, resource, range_supported, filepath0, temp0,
                   max_retries, attempt, resume_pos, mode, body, net_calls,
                   range_log, failures, fetch_result>>
    /\ UNCHANGED <<apiVars, harvestVars, batchVars, restVars>>
    /\ UNCHANGED <<refreshVars, sessionVars>>

\* downloader.py 220 and 146: the attempt returns True and so does
\* download_file.
ReturnTrue ==
    /\ fpc = "renamed"
    /\ fpc' = "done"
    /\ fetch_result' = "True"
    /\ UNCHANGED <<url, resource, range_supported, filepath, temp_filepath,
                   filepath0, temp0, max_retries, attempt, resume_pos, mode,
                   body, net_calls, range_log, failures>>
    /\ UNCHANGED <<apiVars, harvestVars, batchVars, restVars>>
    /\ UNCHANGED <<refreshVars, sessionVars>>

\* KeyboardInterrupt is no Exception: neither except clause catches it and
\* it leaves download_file wherever the transfer stands.
Interrupt ==
    /\ fpc \in {"attempt", "streaming", "renamed"}
    /\ fpc' = "interrupted"
    /\ UNCHANGED <<url, resource, range_supported, filepath, temp_filepath,
                   filepath0, temp0, max_retries, attempt, resume_pos, mode,
                   body, net_calls, range_log, failures, fetch_result>>
    /\ UNCHANGED <<apiVars, harvestVars, batchVars, restVars>>
    /\ UNCHANGED <<refreshVars, sessionVars>>

(***************************************************************************)
(* downloader.py: download_episodes_sequential on a list of items          *)
(***************************************************************************)
MaxBatch == 3

\* An item's enclosure.url: missing, an ordinary address, or an address
\* on the private-media domain.
Enclosures == {"", "pub", "priv"}
Episodes == [enclosure : Enclosures, isPrivateMedia : BOOLEAN]

\* downloader.py 349: "private-media.xyzcdn.net" in enclosure_url
IsPrivateDomain(enclosure_url) == enclosure_url = "priv"

\* downloader.py 345-353: a restricted item whose address is not already
\* on the private-media domain goes through get_private_media_url.
\* (NeedsResolveMutant: the variant that resolves every restricted item.)
NeedsResolveMutant(episode) == episode.isPrivateMedia
NeedsResolve(episode) ==
    /\ episode.isPrivateMedia
    /\ ~(episode.enclosure # "" /\ IsPrivateDomain(episode.enclosure))

\* api.py 277-282 and downloader.py 355-357: the call reports failure, or
\* succeeds with a body without "data", with "data" without "url", or with
\* the address.
ResolveOutcomes == {"failed", "nodata", "nourl", "url"}

\* downloader.py 355-365: the address the item goes on with, Nothing when
\* the loop continues with the next item.  (ResolvedMutant: the variant
\* that goes on with the item's own address when the call gives none.)
ResolvedMutant(enclosure_url, outcome) ==
    IF outcome = "url" THEN Some("resolved") ELSE Some(enclosure_url)
Resolved(enclosure_url, outcome) ==
    IF outcome = "url" THEN Some("resolved") ELSE Nothing

\* downloader.py 367-369: "if not enclosure_url: continue", after the
\* continue of 361-365 for an item that was not resolved.
\* (UsableMutant: the variant without the test of 367.)
UsableMutant(enclosure_url) == enclosure_url # Nothing
Usable(enclosure_url) ==
    IF enclosure_url = Nothing THEN FALSE ELSE enclosure_url[1] # ""

\* downloader.py 337-390: one iteration of the preparation loop.
PrepareTask ==
    /\ bpc = "running"
    /\ prep_i <= Len(batch_episodes)
    /\ LET episode == batch_episodes[prep_i] IN
       \E outcome \in (IF NeedsResolve(episode) THEN ResolveOutcomes
                                                 ELSE {"none"}) :
         LET enclosure_url ==
               IF NeedsResolve(episode)
                 THEN Resolved(episode.enclosure, outcome)
                 ELSE Some(episode.enclosure)
         IN /\ resolve_log' =
                 IF NeedsResolve(episode)
                   THEN Append(resolve_log,
                               [index |-> prep_i, outcome |-> outcome])
                   ELSE resolve_log
            /\ download_tasks' =
                 IF Usable(enclosure_url)
                   THEN Append(download_tasks,
                               [episode_index |-> prep_i,
                                enclosure_url |-> enclosure_url[1]])
                   ELSE download_tasks
    /\ prep_i' = prep_i + 1
    /\ UNCHANGED <<bpc, batch_episodes, task_i, success_count, episode_metadata,
                   transfer_log, report, download_dir, in_flight>>
    /\ UNCHANGED <<apiVars, harvestVars, fetchVars, restVars>>
    /\ UNCHANGED <<refreshVars, sessionVars>>

\* downloader.py 397-403: download_file returns True or False, or raises an
\* ordinary exception.
TransferOutcomes == {"True", "False", "raised"}

\* What the download directory holds for one item: nothing, a provisional
\* partial file, or the finished destination file.
FileStates == {"none", "part", "done"}

\* downloader.py 472-473: the download directory of a first run, with
\* nothing yet for any item.
EmptyDir(episodes) == [i \in 1..Len(episodes) |-> "none"]

\* downloader.py 135-139, 144-157, 205-212: download_file returns True at
\* once over a finished file and otherwise only after the rename; a failed
\* transfer leaves what was there, or the bytes it wrote to the provisional
\* file.
LeftBehind(before, outcome) ==
    IF outcome = "True" THEN {"done"}
    ELSE IF before = "done" THEN {} ELSE {before, "part"}

\* downloader.py 396, 445-446: the per-task except clause; the for loop
\* goes on with the next task.  (AfterTransferMutant: the variant in which
\* an exception leaves the loop.)
AfterTransferMutant(outcome) ==
    IF outcome = "raised" THEN Len(download_tasks) + 1 ELSE task_i + 1
AfterTransfer(outcome) == task_i + 1

\* downloader.py 396-446: one iteration of the transfer loop.
TransferTask ==
    /\ bpc = "running"
    /\ prep_i > Len(batch_episodes)
    /\ task_i <= Len(download_tasks)
    /\ LET task == download_tasks[task_i] IN
       \E outcome \in TransferOutcomes :
         /\ transfer_log' =
              Append(transfer_log,
                     [episode_index |-> task.episode_index,
                      enclosure_url |-> task.enclosure_url,
                      outcome |-> outcome])
         /\ success_count' =
              IF outcome = "True" THEN success_count + 1 ELSE success_count
         /\ episode_metadata' =
              IF outcome = "raised"
                THEN episode_metadata
                ELSE Append(episode_metadata,
                            [episode_index |-> task.episode_index,
                             downloaded |-> (outcome = "True")])
         /\ task_i' = AfterTransfer(outcome)
         /\ \E left \in LeftBehind(download_dir[task.episode_index], outcome) :
              download_dir' =
                 [download_dir EXCEPT ![task.episode_index] = left]
    /\ UNCHANGED <<bpc, batch_episodes, prep_i, download_tasks, resolve_log,
                   report, in_flight>>
    /\ UNCHANGED <<apiVars, harvestVars, fetchVars, restVars>>
    /\ UNCHANGED <<refreshVars, sessionVars>>

\* downloader.py 129-224: where the transfer in flight can stand when the
\* interrupt arrives: nothing written yet, bytes in the provisional file,
\* or the rename already done.
InFlight(before) ==
    IF before = "done" THEN {"done"} ELSE {before, "part", "done"}

\* downloader.py 144-157, 222-224, 448-450: KeyboardInterrupt is not an
\* Exception, so no handler on its way out touches the files.
\* (KeptAtInterruptMutant: the variant that cleans up the provisional file.)
KeptAtInterruptMutant(progress) ==
    IF progress = "part" THEN "none" ELSE progress
KeptAtInterrupt(progress) == progress

\* downloader.py 448-450: KeyboardInterrupt during a transfer is re-raised.
BatchInterrupt ==
    /\ bpc = "running"
    /\ prep_i > Len(batch_episodes)
    /\ task_i <= Len(download_tasks)
    /\ bpc' = "interrupted"
    /\ LET index == download_tasks[task_i].episode_index IN
       \E progress \in InFlight(download_dir[index]) :
         /\ in_flight' = Some([episode_index |-> index,
                               progress |-> progress])
         /\ download_dir' =
              [download_dir EXCEPT ![index] = KeptAtInterrupt(progress)]
    /\ UNCHANGED <<batch_episodes, prep_i, download_tasks, task_i, success_count,
                   episode_metadata, resolve_log, transfer_log, report>>
    /\ UNCHANGED <<apiVars, harvestVars, fetchVars, restVars>>
    /\ UNCHANGED <<refreshVars, sessionVars>>

\* downloader.py 452-454: the summary line and the returned pair.
ReturnBatch ==
    /\ bpc = "running"
    /\ prep_i > Len(batch_episodes)
    /\ task_i > Len(download_tasks)
    /\ bpc' = "returned"
    /\ report' = [success_count |-> success_count,
                  total |-> Len(download_tasks)]
    /\ UNCHANGED <<batch_episodes, prep_i, download_tasks, task_i, success_count,
                   episode_metadata, resolve_log, transfer_log, download_dir,
                   in_flight>>
    /\ UNCHANGED <<apiVars, harvestVars, fetchVars, restVars>>
    /\ UNCHANGED <<refreshVars, sessionVars>>

(***************************************************************************)
(* main.py: one run of handle_download (a collection or a single item)     *)
(***************************************************************************)

MaxCatalog == 2

otherVars == <<apiVars, harvestVars, fetchVars, refreshVars, sessionVars,
               transcriptVars>>

\* utils.py 137-149: what detect_input_type makes of the argument.
InputTypes == {"podcast", "episode", "unknown"}

\* downloader.py 271-328: what get_all_episodes returns, and whether a page
\* fetch failed on the way: not at all, on the first page (nothing
\* harvested) or on a later one (the pages before it are returned).
\* Without self.api the first call raises AttributeError inside the loop's
\* try (downloader.py 283, 320-322), before any request is made.
Harvests(api) ==
    IF ~api
      THEN {[episodes |-> <<>>, failure |-> "first", requested |-> FALSE]}
    ELSE {[episodes |-> <<>>, failure |-> f, requested |-> TRUE] :
             f \in {"none", "first"}}
         \cup [episodes : UNION {[1..n -> Episodes] : n \in 1..MaxCatalog},
               failure : {"none", "later"}, requested : {TRUE}]

\* downloader.py 469: list(reversed(episodes))
Reversed(episodes) ==
    [i \in 1..Len(episodes) |-> episodes[Len(episodes) + 1 - i]]

\* downloader.py 590-596: the catalog snapshot save_data_json writes.
\* (SnapshotMutant: the variant that keeps only the items with an address.)
SnapshotMutant(episodes) ==
    File(SelectSeq(episodes, LAMBDA e : e.enclosure # ""))
Snapshot(episodes) == File(episodes)

\* downloader.py 496: the test under which metadata.json is removed.
\* (DeleteMetadataMutant: the variant that compares with the number of
\* transfer tasks instead of the number of items.)
DeleteMetadataMutant(count, total_count) ==
    count = Len(download_tasks) /\ count > 0
DeleteMetadata(count, total_count) ==
    count = total_count /\ count > 0

\* main.py 328-333: "if result".  None is falsy, every dictionary the
\* download methods return is non-empty and so truthy.
ResultTruthy(value) == value # "None"

\* main.py 273-300: the downloader is constructed whatever
\* ensure_authenticated says (__init__ only returns early, downloader.py
\* 37-44), and an unrecognised input returns False.
HandleDownload ==
    /\ run_pc = "start"
    /\ IF input_type = "unknown"
         THEN /\ run_pc' = "handled"
              /\ handle_success' = FALSE
              /\ UNCHANGED has_api
         ELSE /\ run_pc' = "constructed"
              /\ has_api' \in BOOLEAN
              /\ UNCHANGED handle_success
    /\ UNCHANGED <<input_type, save_metadata_enabled, run_episodes,
                   harvest_failure, listing_requested, data_file,
                   metadata_file, run_result,
                   exit_status>>
    /\ UNCHANGED <<otherVars, batchVars>>

\* downloader.py 587: episodes = self.get_all_episodes(pid, max_episodes)
GetAllEpisodes ==
    /\ run_pc = "constructed"
    /\ input_type = "podcast"
    /\ \E harvest \in Harvests(has_api) :
         /\ run_episodes' = harvest.episodes
         /\ harvest_failure' = harvest.failure
         /\ listing_requested' = harvest.requested
    /\ run_pc' = "harvested"
    /\ UNCHANGED <<input_type, save_metadata_enabled, has_api, data_file,
                   metadata_file, run_result, handle_success, exit_status>>
    /\ UNCHANGED <<otherVars, batchVars>>

\* downloader.py 590-596 and 226-241: the snapshot is written, or open()
\* raises and the exception reaches handle_download.
RunSaveDataJson ==
    /\ run_pc = "harvested"
    /\ \E write_ok \in BOOLEAN :
         IF write_ok
           THEN /\ data_file' = Snapshot(run_episodes)
                /\ run_pc' = "snapshot"
                /\ UNCHANGED run_result
           ELSE /\ run_result' = "raised"
                /\ run_pc' = "returned"
                /\ UNCHANGED data_file
    /\ UNCHANGED <<input_type, save_metadata_enabled, has_api, run_episodes,
                   harvest_failure, listing_requested, metadata_file,
                   handle_success,
                   exit_status>>
    /\ UNCHANGED <<otherVars, batchVars>>

\* downloader.py 458-481: download_podcast returns None for an empty list,
\* and otherwise hands the reversed list to download_episodes_sequential.
RunDownloadPodcast ==
    /\ run_pc = "snapshot"
    /\ IF run_episodes = <<>>
         THEN /\ run_result' = "None"
              /\ run_pc' = "returned"
              /\ UNCHANGED batchVars
         ELSE /\ run_pc' = "transferring"
              /\ bpc' = "running"
              /\ batch_episodes' = Reversed(run_episodes)
              /\ download_dir' = EmptyDir(run_episodes)
              /\ UNCHANGED <<prep_i, download_tasks, task_i, success_count,
                             episode_metadata, resolve_log, transfer_log,
                             report, in_flight, run_result>>
    /\ UNCHANGED <<input_type, save_metadata_enabled, has_api, run_episodes,
                   harvest_failure, listing_requested, data_file,
                   metadata_file, handle_success,
                   exit_status>>
    /\ UNCHANGED otherVars

\* downloader.py 484-489: save_metadata writes metadata.json with the
\* per-item records, unless metadata was switched off.
SaveMetadata ==
    /\ run_pc = "transferring"
    /\ bpc = "returned"
    /\ metadata_file' = IF save_metadata_enabled
                          THEN File(episode_metadata) ELSE Absent
    /\ run_pc' = "metadata"
    /\ UNCHANGED <<input_type, save_metadata_enabled, has_api, run_episodes,
                   harvest_failure, listing_requested, data_file, run_result,
                   handle_success,
                   exit_status>>
    /\ UNCHANGED <<otherVars, batchVars>>

\* downloader.py 496-510: metadata.json is removed when every item was
\* transferred, and the summary dictionary is returned.
FinishPodcast ==
    /\ run_pc = "metadata"
    /\ metadata_file' =
          IF DeleteMetadata(success_count, Len(batch_episodes))
            THEN Absent ELSE metadata_file
    /\ run_result' = "podcast_dict"
    /\ run_pc' = "returned"
    /\ UNCHANGED <<input_type, save_metadata_enabled, has_api, run_episodes,
                   harvest_failure, listing_requested, data_file,
                   handle_success, exit_status>>
    /\ UNCHANGED <<otherVars, batchVars>>

\* downloader.py 605-753: what download_single_episode comes to.  Without
\* self.api the first call raises (610); the item detail call fails (611-
\* 613, None); a restricted item cannot be resolved (641-652, a dictionary
\* with success False); there is no address (654-656, None); download_file
\* returns True or False (683, 732-753, a dictionary either way); or the
\* user interrupts the transfer.
SingleOutcomes(api) ==
    IF ~api THEN {"raised"}
    ELSE {"None", "episode_dict_success", "episode_dict_failure",
          "interrupt"}

DownloadSingleEpisode ==
    /\ run_pc = "constructed"
    /\ input_type = "episode"
    /\ \E outcome \in SingleOutcomes(has_api) :
         IF outcome = "interrupt"
           THEN /\ run_pc' = "interrupted"
                /\ UNCHANGED run_result
           ELSE /\ run_pc' = "returned"
                /\ run_result' = outcome
    /\ UNCHANGED <<input_type, save_metadata_enabled, has_api, run_episodes,
                   harvest_failure, listing_requested, data_file,
                   metadata_file, handle_success,
                   exit_status>>
    /\ UNCHANGED <<otherVars, batchVars>>

\* downloader.py 279-322: KeyboardInterrupt while pages are fetched is not
\* caught by the loop's "except Exception".
RunInterrupt ==
    /\ run_pc = "constructed"
    /\ input_type = "podcast"
    /\ has_api
    /\ run_pc' = "interrupted"
    /\ UNCHANGED <<input_type, save_metadata_enabled, has_api, run_episodes,
                   harvest_failure, listing_requested, data_file,
                   metadata_file, run_result,
                   handle_success, exit_status>>
    /\ UNCHANGED <<otherVars, batchVars>>

\* main.py 328-337: the result decides what handle_download returns; an
\* exception gives False.
HandleResult ==
    /\ run_pc = "returned"
    /\ handle_success' = (run_result # "raised" /\ ResultTruthy(run_result))
    /\ run_pc' = "handled"
    /\ UNCHANGED <<input_type, save_metadata_enabled, has_api, run_episodes,
                   harvest_failure, listing_requested, data_file,
                   metadata_file, run_result,
                   exit_status>>
    /\ UNCHANGED <<otherVars, batchVars>>

\* main.py 365-366: sys.exit(0 if success else 1)
MainExit ==
    /\ run_pc = "handled"
    /\ exit_status' = IF handle_success THEN "0" ELSE "1"
    /\ run_pc' = "exit"
    /\ UNCHANGED <<input_type, save_metadata_enabled, has_api, run_episodes,
                   harvest_failure, listing_requested, data_file,
                   metadata_file, run_result,
                   handle_success>>
    /\ UNCHANGED <<otherVars, batchVars>>

\* An interrupt is on its way out of the download methods.
Interrupted == run_pc = "interrupted" \/ bpc = "interrupted"

\* main.py 369-374: KeyboardInterrupt reaches __main__ in place of a
\* result, and __main__ exits with 1.
MainInterrupted ==
    /\ run_pc \in {"transferring", "interrupted"}
    /\ Interrupted
    /\ run_result' = "interrupted"
    /\ exit_status' = "1"
    /\ run_pc' = "exit"
    /\ UNCHANGED <<input_type, save_metadata_enabled, has_api, run_episodes,
                   harvest_failure, listing_requested, data_file,
                   metadata_file, handle_success>>
    /\ UNCHANGED <<otherVars, batchVars>>

(***************************************************************************)
(* Initial states and specifications                                       *)
(***************************************************************************)

\* A XiaoyuzhouAPI made by XiaoyuzhouAuth once credentials are held (the
\* handler is set, both sides hold the same pair), or one made on its own
\* (no handler, no credentials).
ApiInit ==
    /\ auth_handler \in BOOLEAN
    /\ IF auth_handler
       THEN /\ auth_access_token \in Tokens
            /\ auth_refresh_token \in Tokens \cup {None}
            /\ auth_device_id \in Devices
            /\ credentials_file \in
                  {NoFile, [access_token |-> auth_access_token,
                            refresh_token |-> auth_refresh_token,
                            device_id |-> auth_device_id]}
       ELSE /\ auth_access_token = None
            /\ auth_refresh_token = None
            /\ auth_device_id = None
            /\ credentials_file = NoFile
    /\ api_access_token = auth_access_token
    /\ api_device_id = auth_device_id
    /\ session_headers = [token |-> auth_access_token,
                          device |-> auth_device_id]
    /\ rpc = "idle"
    /\ call_kind = None
    /\ kwargs_headers = [token |-> None, device |-> None]
    /\ response = None
    /\ result = None
    /\ sent = <<>>
    /\ refreshes = 0
    /\ last_refreshed = None

ApiIdle ==
    /\ auth_handler = FALSE
    /\ auth_access_token = None
    /\ auth_refresh_token = None
    /\ auth_device_id = None
    /\ credentials_file = NoFile
    /\ api_access_token = None
    /\ api_device_id = None
    /\ session_headers = [token |-> None, device |-> None]
    /\ rpc = "off"
    /\ call_kind = None
    /\ kwargs_headers = [token |-> None, device |-> None]
    /\ response = None
    /\ result = None
    /\ sent = <<>>
    /\ refreshes = 0
    /\ last_refreshed = None

HarvestStart(pc) ==
    /\ hpc = pc
    /\ all_episodes = <<>>
    /\ load_more_key = Nothing
    /\ page_count = 0
    /\ requests_log = <<>>
    /\ next_item = 0
    /\ fetch_failed = FALSE
    /\ snapshot = Nothing
    /\ tasks_started = 0
    /\ op_result = "pending"

HarvestInit ==
    /\ max_episodes \in MaxEpisodesChoices
    /\ HarvestStart("loop")

HarvestIdle ==
    /\ max_episodes = Nothing
    /\ HarvestStart("off")

FetchStart(pc) ==
    /\ fpc = pc
    /\ filepath0 = filepath
    /\ temp0 = temp_filepath
    /\ attempt = 0
    /\ resume_pos = 0
    /\ mode = None
    /\ body = <<>>
    /\ net_calls = 0
    /\ range_log = <<>>
    /\ failures = <<>>
    /\ fetch_result = None

\* One task: a resource of 1..MaxSize bytes behind the URL, a destination
\* that is absent or complete from an earlier run, and a provisional file
\* that is absent or holds a prefix an earlier run left.  An earlier run
\* leaves no provisional file beside a destination: it writes the one only
\* while the other is absent, and the rename removes it.
FetchInit ==
    /\ url \in {"", "u"}
    /\ \E m \in 1..MaxSize : resource = Resource(m)
    /\ range_supported \in BOOLEAN
    /\ filepath \in {Absent, File(resource)}
    /\ temp_filepath \in
          {Absent} \cup {File(Prefix(resource, n)) : n \in 0..Len(resource)}
    /\ Exists(filepath) => temp_filepath = Absent
    /\ max_retries \in 0..DefaultMaxRetries
    /\ FetchStart("call")

FetchIdle ==
    /\ url = ""
    /\ resource = <<>>
    /\ range_supported = TRUE
    /\ filepath = Absent
    /\ temp_filepath = Absent
    /\ max_retries = 0
    /\ FetchStart("off")

RefreshIdle == refresh_call = Nothing

SessionStart(pc) ==
    /\ apc = pc
    /\ auth_call = None
    /\ auth_result = None
    /\ pre = Nothing
    /\ probes = <<>>
    /\ main_pc = "start"

SessionIdle == SessionStart("off")

\* A new XiaoyuzhouAuth (auth.py 23-29) beside the credentials file an
\* earlier run left: none, a complete one, one without refresh token, one
\* without device id, one without access token.
CredentialFiles ==
    {NoFile,
     [access_token |-> "tokA", refresh_token |-> "tokB", device_id |-> "dev1"],
     [access_token |-> "tokA", refresh_token |-> None, device_id |-> "dev1"],
     [access_token |-> "tokA", refresh_token |-> "tokB", device_id |-> None],
     [access_token |-> None, refresh_token |-> "tokB", device_id |-> "dev1"]}

AuthInit ==
    /\ auth_handler = TRUE
    /\ auth_access_token = None
    /\ auth_refresh_token = None
    /\ auth_device_id = None
    /\ credentials_file \in CredentialFiles
    /\ api_access_token = None
    /\ api_device_id = None
    /\ session_headers = [token |-> None, device |-> None]
    /\ rpc = "off"
    /\ call_kind = None
    /\ kwargs_headers = [token |-> None, device |-> None]
    /\ response = None
    /\ result = None
    /\ sent = <<>>
    /\ refreshes = 0
    /\ last_refreshed = None
    /\ refresh_call = Nothing
    /\ SessionStart("idle")

TranscriptStart(pc) ==
    /\ tpc = pc
    /\ transcript_request = Nothing
    /\ transcript_response = Nothing
    /\ transcript_result = Nothing

TranscriptInit ==
    /\ transcript_eid \in Eids
    /\ transcript_media_id \in MediaIds
    /\ TranscriptStart("call")

TranscriptIdle ==
    /\ transcript_eid = None
    /\ transcript_media_id = None
    /\ TranscriptStart("off")

RunStart(pc) ==
    /\ run_pc = pc
    /\ has_api = FALSE
    /\ run_episodes = <<>>
    /\ harvest_failure = "none"
    /\ listing_requested = FALSE
    /\ data_file = Absent
    /\ metadata_file = Absent
    /\ run_result = "unset"
    /\ handle_success = FALSE
    /\ exit_status = "unset"

RunInit ==
    /\ input_type \in InputTypes
    /\ save_metadata_enabled \in BOOLEAN
    /\ RunStart("start")

RunIdle ==
    /\ input_type = "unknown"
    /\ save_metadata_enabled = FALSE
    /\ RunStart("off")

RestIdle == TranscriptIdle /\ RunIdle

BatchStart(pc) ==
    /\ bpc = pc
    /\ prep_i = 1
    /\ download_tasks = <<>>
    /\ task_i = 1
    /\ success_count = 0
    /\ episode_metadata = <<>>
    /\ resolve_log = <<>>
    /\ transfer_log = <<>>
    /\ report = None
    /\ in_flight = Nothing

\* A list of up to MaxBatch items, as download_podcast or download_from_json
\* hands it over.
BatchInit ==
    /\ batch_episodes \in UNION {[1..n -> Episodes] : n \in 0..MaxBatch}
    /\ download_dir = EmptyDir(batch_episodes)
    /\ BatchStart("running")

BatchIdle ==
    /\ batch_episodes = <<>>
    /\ download_dir = <<>>
    /\ BatchStart("off")

ManagerIdle == RefreshIdle /\ SessionIdle

InitApi == ApiInit /\ HarvestIdle /\ FetchIdle /\ BatchIdle /\ ManagerIdle /\ RestIdle
NextApi ==
    \/ \E kind \in CallKinds : BeginCall(kind)
    \/ FirstRequest
    \/ Refresh
    \/ Retry
    \/ EndCall
SpecApi == InitApi /\ [][NextApi]_vars

Init == ApiIdle /\ HarvestInit /\ FetchIdle /\ BatchIdle /\ ManagerIdle /\ RestIdle
Next ==
    \/ FetchPage
    \/ SaveDataJson
    \/ DownloadPodcast
Spec == Init /\ [][Next]_vars

InitFetch == ApiIdle /\ HarvestIdle /\ FetchInit /\ BatchIdle /\ ManagerIdle /\ RestIdle
NextFetch ==
    \/ DownloadFile
    \/ AttemptRequest
    \/ WriteChunk
    \/ StreamException
    \/ Rename
    \/ ReturnTrue
    \/ Interrupt
SpecFetch == InitFetch /\ [][NextFetch]_vars

InitAuth == AuthInit /\ HarvestIdle /\ FetchIdle /\ BatchIdle /\ RestIdle
NextAuth ==
    \/ DoLoadCredentials
    \/ BeginEnsureValidToken
    \/ BeginEnsureAuthenticated
    \/ LoadStep
    \/ VerifyToken
    \/ EnsureValidRefresh
    \/ Prompt
    \/ BeginInteractiveLogin
    \/ LoginWithSms
    \/ LoginSave
    \/ \E kind \in CallKinds : BeginCall(kind)
    \/ FirstRequest
    \/ Refresh
    \/ Retry
    \/ EndCall
SpecAuth == InitAuth /\ [][NextAuth]_vars

InitTranscript ==
    /\ ApiIdle /\ HarvestIdle /\ FetchIdle /\ BatchIdle /\ ManagerIdle
    /\ TranscriptInit /\ RunIdle
NextTranscript ==
    \/ TranscriptSend
    \/ TranscriptReceive
    \/ TranscriptReturn
SpecTranscript == InitTranscript /\ [][NextTranscript]_vars

InitRun ==
    /\ ApiIdle /\ HarvestIdle /\ FetchIdle /\ BatchIdle /\ ManagerIdle
    /\ TranscriptIdle /\ RunInit
NextRun ==
    \/ HandleDownload
    \/ GetAllEpisodes
    \/ RunSaveDataJson
    \/ RunDownloadPodcast
    \/ PrepareTask
    \/ TransferTask
    \/ BatchInterrupt
    \/ ReturnBatch
    \/ SaveMetadata
    \/ FinishPodcast
    \/ DownloadSingleEpisode
    \/ RunInterrupt
    \/ HandleResult
    \/ MainExit
    \/ MainInterrupted
SpecRun == InitRun /\ [][NextRun]_vars

InitBatch == ApiIdle /\ HarvestIdle /\ FetchIdle /\ BatchInit /\ ManagerIdle /\ RestIdle
NextBatch ==
    \/ PrepareTask
    \/ TransferTask
    \/ BatchInterrupt
    \/ ReturnBatch
SpecBatch == InitBatch /\ [][NextBatch]_vars

(***************************************************************************)
(* Properties of the Transport Client (SpecApi)                            *)
(***************************************************************************)

\* C1: a call whose first response is 401 performs at most one refresh and
\* at most one retried request, and returns what the retry yields, a 401
\* included: never more than two requests and one refresh per call.
C1_OneRefreshOneRetry ==
    /\ Len(sent) <= 2
    /\ refreshes <= 1
    /\ (Len(sent) = 2 => sent[1].status = "401" /\ refreshes = 1)
    /\ (rpc = "returned" /\ Len(sent) = 2 => response = sent[2].status)

\* A call that was answered 401 twice has returned the second 401.
C1_Witness ==
    /\ rpc = "returned"
    /\ Len(sent) = 2
    /\ sent[2].status = "401"
    /\ response = "401"
    /\ refreshes = 1

\* C2: once a refresh has yielded a new access token, every request sent
\* after it (the retry of the listing, item-detail and
\* privileged-resolution calls included) carries that token.
C2_NextRequestCarriesNewToken ==
    \A i \in 1..Len(sent) :
        sent[i].after # None => sent[i].token = sent[i].after

(***************************************************************************)
(* Properties of the Catalog Harvester (Spec)                              *)
(***************************************************************************)

\* The pages the listing endpoint returned, in request order.
RECURSIVE Concat(_, _)
Concat(log, k) ==
    IF k = 0 THEN <<>> ELSE Concat(log, k - 1) \o log[k].page

Returned == Concat(requests_log, Len(requests_log))
Cumulated(k) == Len(Concat(requests_log, k))
Harvested == hpc \in {"done", "saved", "finished"}

\* C3: without max_items, collect() returns the concatenation of the
\* returned pages in server order up to and including the first page
\* shorter than the page size requested, and issues one request per
\* returned page and none after that page.
C3_ConcatenationToFirstShortPage ==
    (Harvested /\ max_episodes = Nothing /\ ~fetch_failed) =>
        /\ all_episodes = Returned
        /\ page_count = Len(requests_log)
        /\ \A i \in 1..Len(requests_log) :
              Len(requests_log[i].page) < PageLimit <=> i = Len(requests_log)

\* C4: with max_items >= 1, once the accumulated count reaches max_items
\* collect() returns exactly the first max_items items and has issued no
\* request after the page on which the count reached it.
C4_TruncatesAtMaxItems ==
    (/\ Harvested
     /\ max_episodes # Nothing
     /\ max_episodes[1] >= 1
     /\ Len(Returned) >= max_episodes[1]) =>
        /\ all_episodes = SubSeq(Returned, 1, max_episodes[1])
        /\ \A k \in 1..(Len(requests_log) - 1) : Cumulated(k) < max_episodes[1]

\* max_items = 40 over pages of 25 and 25: 40 items, two requests.
C4_Witness ==
    /\ hpc = "done"
    /\ max_episodes = Some(40)
    /\ Len(all_episodes) = 40
    /\ page_count = 2
    /\ Len(Returned) = 50

\* C5: no listing request follows a successfully fetched page that holds
\* fewer items than the page size requested.
C5_StopsAfterShortPage ==
    \A i \in 1..Len(requests_log) :
        (/\ requests_log[i].outcome = "ok"
         /\ Len(requests_log[i].page) < requests_log[i].payload.limit)
            => i = Len(requests_log)

\* C6: when a page fetch failed during harvesting, download starts no
\* transfer.
C6_FailedHarvestStartsNoTransfer ==
    fetch_failed => tasks_started = 0

(***************************************************************************)
(* Properties of the Transfer Engine (SpecFetch)                           *)
(***************************************************************************)

\* The task of the claims: it has a URL, as every task download_file is
\* given by its callers has.
IsTask == Truthy(url)

C8_ExistingDestinationShortCircuits ==
    (IsTask /\ Exists(filepath0) /\ fpc # "call") =>
        /\ fpc = "done"
        /\ fetch_result = "True"
        /\ net_calls = 0
        /\ filepath = filepath0
        /\ temp_filepath = temp0

C8_Witness ==
    /\ IsTask
    /\ Exists(filepath0)
    /\ fpc = "done"
    /\ fetch_result = "True"
    /\ net_calls = 0

C10_BoundedAttempts ==
    /\ net_calls <= max_retries + 1
    /\ Len(failures) <= max_retries + 1
    /\ fpc = "attempt" =>
          /\ attempt = Len(failures)
          /\ net_calls = attempt
          /\ attempt <= max_retries
    /\ (fpc = "done" /\ Len(failures) = max_retries + 1) =>
          fetch_result = "False"
    /\ (IsTask /\ fpc = "done" /\ fetch_result = "False") =>
          /\ Len(failures) = max_retries + 1
          /\ net_calls = max_retries + 1

\* All four attempts of the shipped configuration failed, by an HTTP error
\* status and by a transport exception among them.
C10_Witness ==
    /\ fpc = "done"
    /\ fetch_result = "False"
    /\ max_retries = DefaultMaxRetries
    /\ net_calls = max_retries + 1
    /\ \E i, j \in 1..Len(failures) :
          failures[i] = "http" /\ failures[j] = "transport"

\* C11: an attempt abandoned by an exception while streaming leaves the
\* provisional file as it is (neither removed nor truncated), and the
\* request of an attempt made with a provisional file asks for the byte
\* range that starts at exactly its length.
C11_AbandonedBytesKept ==
    [][/\ (fpc = "streaming" /\ Len(failures') = Len(failures) + 1) =>
             temp_filepath' = temp_filepath
       /\ (/\ fpc = "attempt"
           /\ Len(range_log') = Len(range_log) + 1
           /\ Exists(temp_filepath)) =>
             range_log'[Len(range_log')] = Some(Len(Bytes(temp_filepath)))
      ]_vars

\* The first attempt started from nothing and broke off after two bytes;
\* the second asked for the range from 2.
C11_Witness ==
    /\ temp0 = Absent
    /\ failures = <<"stream">>
    /\ range_log = <<Nothing, Some(2)>>
    /\ fpc = "streaming"

(***************************************************************************)
(* Properties of the batch (SpecBatch)                                     *)
(***************************************************************************)
\* The resolution call for item i gave no address.
Skipped(i) ==
    \E k \in 1..Len(resolve_log) :
        resolve_log[k].index = i /\ resolve_log[k].outcome # "url"

\* Item i, taken by itself, has an address to transfer from.
Transferable(i) ==
    IF NeedsResolve(batch_episodes[i])
      THEN [index |-> i, outcome |-> "url"] \in
               {resolve_log[k] : k \in 1..Len(resolve_log)}
      ELSE batch_episodes[i].enclosure # ""

TransfersOf(i) == {k \in 1..Len(transfer_log) : transfer_log[k].episode_index = i}

C13_FailuresArePerItem ==
    /\ Len(transfer_log) <= Len(download_tasks)
    /\ \A k \in 1..Len(transfer_log) :
         transfer_log[k].episode_index = download_tasks[k].episode_index
    /\ bpc = "returned" =>
         /\ Len(transfer_log) = Len(download_tasks)
         /\ report =
              [success_count |->
                   Cardinality({k \in 1..Len(transfer_log) :
                                   transfer_log[k].outcome = "True"}),
               total |-> Len(download_tasks)]

\* Three tasks: the first raised, the second returned failure, the third
\* succeeded, and the batch reported 1 of 3.
C13_Witness ==
    /\ bpc = "returned"
    /\ Len(download_tasks) = 3
    /\ Len(transfer_log) = 3
    /\ transfer_log[1].outcome = "raised"
    /\ transfer_log[2].outcome = "False"
    /\ transfer_log[3].outcome = "True"
    /\ report = [success_count |-> 1, total |-> 3]

(***************************************************************************)
(* Properties of the Session Manager (SpecAuth)                            *)
(***************************************************************************)

\* C14: whenever refresh_access_token has returned True, the credentials
\* file holds the access token the manager now holds.
C14_RefreshPersistedBeforeSuccess ==
    (refresh_call # Nothing /\ refresh_call[1].returned = "True") =>
        credentials_file.access_token = auth_access_token

\* C15: a refresh_access_token that returns False (no refresh token, a
\* status other than 200, an exception, a 200 without a new access token)
\* leaves the manager's three fields, the client's fields and headers and
\* the credentials file as they were.
C15_FailedRefreshChangesNothing ==
    [][(/\ refresh_call' # refresh_call
        /\ refresh_call' # Nothing
        /\ refresh_call'[1].returned = "False") =>
            Credentials' = Credentials]_vars

\* A refresh answered with a 500 has returned False.
C15_Witness ==
    /\ refresh_call = Some([posted |-> "500", returned |-> "False"])
    /\ auth_access_token = "tokA"
    /\ auth_refresh_token = "tokB"

\* C16: the value refresh_access_token returns after a 401 from the
\* refresh endpoint is not the value it returns after a 500.
C16_InvalidRefreshTokenDistinguished ==
    (refresh_call # Nothing /\ refresh_call[1].posted = "401") =>
        refresh_call[1].returned #
            RefreshResult([status |-> "500", access |-> None,
                           refresh |-> None])

\* The probe of the operation in progress or just finished was answered
\* with a 200.
Confirmed == probes # <<>> /\ probes[Len(probes)] = "200"

\* ensure_valid_token has returned.
EnsureValidReturned == auth_call = "ensure_valid_token" /\ apc = "idle"

\* C17: when the probe confirms the credentials held, ensure_valid_token
\* has made that one probe and nothing else: it returns True, no refresh
\* was called, and every credential is as it was when the call began.
C17_ValidCredentialsOneProbe ==
    (EnsureValidReturned /\ Confirmed) =>
        /\ probes = <<"200">>
        /\ auth_result = "True"
        /\ refresh_call = Nothing
        /\ pre = Some(Credentials)

C17_Witness ==
    /\ EnsureValidReturned
    /\ probes = <<"200">>
    /\ auth_result = "True"
    /\ auth_access_token = "tokA"

\* C18: ensure_valid_token calls refresh_access_token exactly when the
\* access token is absent or the probe did not confirm it (an absent
\* access token is never probed); and when no refresh token is held in
\* that situation it returns False without posting to the refresh
\* endpoint.
C18_RefreshExactlyWhenNotConfirmed ==
    /\ auth_call = "ensure_valid_token" =>
         /\ Len(probes) <= 1
         /\ ~Truthy(pre[1].access_token) => probes = <<>>
         /\ refresh_call # Nothing => ~Confirmed
    /\ EnsureValidReturned =>
         /\ refresh_call # Nothing <=> ~Confirmed
         /\ (~Confirmed /\ ~Truthy(pre[1].refresh_token)) =>
               /\ auth_result = "False"
               /\ refresh_call[1].posted = "none"

\* The probe was answered with a 401, no refresh token was held:
\* ensure_valid_token returned False and nothing was posted.
C18_Witness ==
    /\ EnsureValidReturned
    /\ probes = <<"401">>
    /\ ~Truthy(pre[1].refresh_token)
    /\ auth_result = "False"
    /\ refresh_call = Some([posted |-> "none", returned |-> "False"])

\* C19: once update_credentials has injected an access token and a device
\* id and the operation that called it has returned, the credentials
\* file holds that access token and that device id.
C19_UpdatePersists ==
    (/\ apc = "idle"
     /\ Truthy(api_access_token) /\ Truthy(api_device_id)) =>
        /\ credentials_file.access_token = api_access_token
        /\ credentials_file.device_id = api_device_id

\* C20: while a listing, item-detail or privileged-resolution request is
\* being made, the manager holds an access token and a device id, and so
\* does the client.
C20_CallsOnlyWithCredentials ==
    rpc \in {"first", "retry"} =>
        /\ IsAuthenticated
        /\ Truthy(api_access_token) /\ Truthy(api_device_id)

(***************************************************************************)
(* More properties of the Transport Client (SpecApi)                       *)
(***************************************************************************)

\* C27: when the first response is a 401 and the refresh fails, or there
\* is no handler to refresh with, _make_request_with_retry returns that
\* 401 and has sent no second request.
C27_FailedRefreshReturnsThe401 ==
    (/\ rpc = "returned"
     /\ sent[1].status = "401"
     /\ refresh_call = Nothing \/ refresh_call[1].returned = "False") =>
        /\ Len(sent) = 1
        /\ response = "401"
        /\ result = "failure"

\* The refresh endpoint answered the handler with a 500.
C27_Witness ==
    /\ rpc = "returned"
    /\ auth_handler
    /\ Len(sent) = 1
    /\ response = "401"
    /\ refresh_call = Some([posted |-> "500", returned |-> "False"])

\* C28: when the first response is not a 401, or the first request raises,
\* exactly one request was sent and no refresh was called; an error status
\* and an exception both reach the caller as a failure result.
C28_NoRetryOnOtherFailures ==
    (/\ rpc \in {"returned", "raised"}
     /\ sent[1].status # "401") =>
        /\ Len(sent) = 1
        /\ refreshes = 0
        /\ refresh_call = Nothing
        /\ sent[1].status # "200" => result = "failure"

\* A 500 with a handler set and a refresh token held: still one request.
C28_Witness ==
    /\ rpc = "returned"
    /\ auth_handler
    /\ Truthy(auth_refresh_token)
    /\ Len(sent) = 1
    /\ sent[1].status = "500"
    /\ result = "failure"

(***************************************************************************)
(* More properties of the Transfer Engine (SpecFetch)                      *)
(***************************************************************************)

\* C29: in every state where fetch() has returned success the destination
\* exists and the provisional file does not; a destination that was not
\* there at the call is the renamed provisional file.
C29_SuccessOnlyAfterRename ==
    fetch_result = "True" =>
        /\ Exists(filepath)
        /\ ~Exists(temp_filepath)
        /\ ~Exists(filepath0) => (fpc = "done" /\ body = <<>>)

\* A transfer resumed from a provisional file, finished and renamed.
C29_Witness ==
    /\ fetch_result = "True"
    /\ filepath0 = Absent
    /\ Exists(temp0)
    /\ net_calls >= 1
    /\ Exists(filepath)
    /\ temp_filepath = Absent

(***************************************************************************)
(* More properties of the Catalog Harvester (Spec)                         *)
(***************************************************************************)

\* The last item of the page the i-th listing request returned.
LastOfPage(i) == requests_log[i].page[Len(requests_log[i].page)]

\* C30: the first listing request carries no cursor; every later one
\* carries direction NEXT with the pubDate and the eid of the last item
\* of the page returned just before it.
C30_CursorFromLastItemOfPreviousPage ==
    \A i \in 1..Len(requests_log) :
        IF i = 1
        THEN requests_log[i].payload.loadMoreKey = Nothing
        ELSE /\ requests_log[i - 1].outcome = "ok"
             /\ requests_log[i - 1].page # <<>>
             /\ requests_log[i].payload.loadMoreKey =
                  Some([direction |-> "NEXT",
                        pubDate |-> PubDate(LastOfPage(i - 1)),
                        id |-> Eid(LastOfPage(i - 1))])

\* Three requests; the third carries the last item of the second page.
C30_Witness ==
    /\ Len(requests_log) = 3
    /\ Len(requests_log[1].page) = 25
    /\ Len(requests_log[2].page) = 20
    /\ requests_log[3].payload.loadMoreKey =
          Some([direction |-> "NEXT", pubDate |-> 45, id |-> 45])


(***************************************************************************)
(* Properties of get_episode_transcript (SpecTranscript)                   *)
(***************************************************************************)

\* C25: get_episode_transcript(eid, media_id) issues a POST to
\* /v1/episode-transcript/get whose body is {eid, mediaId} of its two
\* arguments, and on a successful response it returns a success result
\* whose data is the response payload.
C25_TranscriptRequestAndSuccess ==
    /\ tpc \in {"sent", "received", "returned"} =>
          /\ transcript_request.method = "POST"
          /\ transcript_request.path = "/v1/episode-transcript/get"
          /\ transcript_request.json =
                [eid |-> transcript_eid, mediaId |-> transcript_media_id]
    /\ (tpc = "returned" /\ transcript_response.status = "200") =>
          /\ transcript_result.success
          /\ transcript_result.data = transcript_response.payload

C25_Witness ==
    /\ tpc = "returned"
    /\ transcript_response.status = "200"
    /\ transcript_response.payload = "transcript"
    /\ transcript_eid = "e2"
    /\ transcript_media_id = "m3"

\* C26: an error status never makes get_episode_transcript raise: the call
\* returns a failure result (success false) whose error field carries the
\* text of the error.
C26_TranscriptErrorStatusIsAResult ==
    (tpc = "returned" /\ transcript_response.status \in Statuses \ {"200"}) =>
        /\ ~transcript_result.success
        /\ transcript_result.error = transcript_response.error
        /\ Truthy(transcript_result.error)

C26_Witness ==
    /\ tpc = "returned"
    /\ transcript_response.status = "500"
    /\ ~transcript_result.success


(***************************************************************************)
(* Properties of a download run (SpecRun)                                  *)
(***************************************************************************)

\* C21: a user interrupt during a collection download leaves every finished
\* destination file in place, touches no item but the one in flight, keeps
\* what the transfer in flight had written to its provisional file, is
\* followed by no further transfer, resolution call or file write, and ends
\* the process with exit status 1.
C21_InterruptKeepsFilesAndStops ==
    /\ [](bpc = "interrupted" =>
            /\ download_dir[in_flight[1].episode_index] = in_flight[1].progress
            /\ (run_pc = "exit" => exit_status = "1"))
    /\ [][(bpc = "running" /\ bpc' = "interrupted") =>
            \A i \in 1..Len(batch_episodes) :
               /\ download_dir[i] = "done" => download_dir'[i] = "done"
               /\ i # download_tasks[task_i].episode_index =>
                     download_dir'[i] = download_dir[i]]_vars
    /\ [][Interrupted =>
            /\ download_dir' = download_dir
            /\ transfer_log' = transfer_log
            /\ resolve_log' = resolve_log
            /\ task_i' = task_i
            /\ data_file' = data_file
            /\ metadata_file' = metadata_file
            /\ run_pc' = "exit"
            /\ exit_status' = "1"]_vars

C21_Witness ==
    /\ run_pc = "exit"
    /\ bpc = "interrupted"
    /\ exit_status = "1"
    /\ in_flight[1].progress = "part"
    /\ \E i \in 1..Len(batch_episodes) : download_dir[i] = "done"
    /\ Len(transfer_log) < Len(download_tasks)

\* The ways a run fails that the exit status is to report: unrecognised
\* input, no authenticated client, a failed page fetch, a download method
\* that returns None, raises or reports the failed transfer of the
\* requested item, and a user interrupt.
RunFailed ==
    \/ input_type = "unknown"
    \/ ~has_api
    \/ harvest_failure # "none"
    \/ run_result \in {"None", "raised", "episode_dict_failure",
                       "interrupted"}

\* C22: for every run of a CLI download operation the exit status is 1 if
\* the operation failed in any way or was interrupted, and 0 if it
\* succeeded.
C22_ExitStatusReflectsOutcome ==
    run_pc = "exit" => exit_status = (IF RunFailed THEN "1" ELSE "0")

\* Every item of the collection has its finished destination file.
AllTransferred ==
    \A i \in 1..Len(batch_episodes) : download_dir[i] = "done"

C24_SnapshotBeforeTransfers ==
    /\ data_file # Absent =>
          /\ run_pc \notin {"start", "constructed", "harvested"}
          /\ data_file = File(run_episodes)
    /\ bpc # "off" => data_file = File(run_episodes)

C24_Witness ==
    /\ run_pc = "exit"
    /\ bpc = "interrupted"
    /\ Len(transfer_log) = 1
    /\ transfer_log[1].outcome = "False"
    /\ data_file = File(run_episodes)
    /\ Len(run_episodes) = 2


(***************************************************************************)
(* More properties of the batch (SpecBatch)                                *)
(***************************************************************************)

ResolutionsOf(i) == {k \in 1..Len(resolve_log) : resolve_log[k].index = i}

\* Item i has been through the preparation loop.
Prepared(i) == i < prep_i

\* C31: once a restricted item whose address is not on the private-media
\* domain has been prepared, exactly one resolution call has been made for
\* it, and none for an item whose address is already there or that is not
\* restricted; every transfer of an item that went through resolution
\* comes after that call and uses the address the call returned.
C31_OneResolutionBeforeTransfer ==
    /\ \A i \in 1..Len(batch_episodes) :
         Cardinality(ResolutionsOf(i)) =
            IF Prepared(i) /\ batch_episodes[i].isPrivateMedia
                  /\ batch_episodes[i].enclosure # "priv"
              THEN 1 ELSE 0
    /\ \A k \in 1..Len(transfer_log) :
         LET i == transfer_log[k].episode_index IN
           IF batch_episodes[i].isPrivateMedia
                 /\ batch_episodes[i].enclosure # "priv"
             THEN /\ transfer_log[k].enclosure_url = "resolved"
                  /\ \E h \in ResolutionsOf(i) : resolve_log[h].outcome = "url"
             ELSE transfer_log[k].enclosure_url = batch_episodes[i].enclosure

\* Three restricted items: the first with an ordinary address was resolved
\* once and transferred from the resolved address, the second, already on
\* the private-media domain, was transferred without a call, and so was
\* the third, which is not restricted.
C31_Witness ==
    /\ bpc = "returned"
    /\ Len(batch_episodes) = 3
    /\ batch_episodes[1] = [enclosure |-> "pub", isPrivateMedia |-> TRUE]
    /\ batch_episodes[2] = [enclosure |-> "priv", isPrivateMedia |-> TRUE]
    /\ batch_episodes[3] = [enclosure |-> "pub", isPrivateMedia |-> FALSE]
    /\ resolve_log = <<[index |-> 1, outcome |-> "url"]>>
    /\ Len(transfer_log) = 3
    /\ transfer_log[1].enclosure_url = "resolved"
    /\ transfer_log[2].enclosure_url = "priv"

\* Item i has no address and is not marked restricted.
Dropped(i) ==
    batch_episodes[i].enclosure = "" /\ ~batch_episodes[i].isPrivateMedia

\* C32: an item without an address that is not marked restricted never
\* becomes a task and no resolution call or transfer is ever made for it,
\* while the loop goes on: when the batch returns every item was prepared
\* and every item with an address has its task and its transfer.
C32_ItemWithoutAddressDropped ==
    /\ \A i \in 1..Len(batch_episodes) :
         Dropped(i) =>
            /\ ResolutionsOf(i) = {}
            /\ TransfersOf(i) = {}
            /\ \A k \in 1..Len(download_tasks) :
                  download_tasks[k].episode_index # i
                  /\ download_tasks[k].enclosure_url # ""
    /\ bpc = "returned" =>
         /\ prep_i = Len(batch_episodes) + 1
         /\ \A j \in 1..Len(batch_episodes) :
              (~Dropped(j) /\ Transferable(j)) =>
                 /\ \E k \in 1..Len(download_tasks) :
                       download_tasks[k].episode_index = j
                 /\ TransfersOf(j) # {}

\* The second of three items has no address and is not restricted; the
\* first and the third were transferred.
C32_Witness ==
    /\ bpc = "returned"
    /\ Len(batch_episodes) = 3
    /\ Dropped(2)
    /\ ~Dropped(1) /\ ~Dropped(3)
    /\ Len(download_tasks) = 2
    /\ TransfersOf(1) # {} /\ TransfersOf(3) # {}
    /\ resolve_log = <<>>


(***************************************************************************)
(* Further properties of the Transfer Engine (SpecFetch)                   *)
(***************************************************************************)

\* The network did not fail and the endpoint honours byte ranges: no
\* attempt broke off, and the only error status was the endpoint's answer
\* to a range that starts at or past the end of the resource.
FaultFree ==
    /\ range_supported
    /\ \A k \in 1..Len(failures) :
          /\ failures[k] = "http"
          /\ range_log[k] # Nothing
          /\ range_log[k][1] >= Len(resource)

\* C33: with a fault-free network and an endpoint that honours byte
\* ranges, fetch() on a task whose provisional file holds a prefix of any
\* length N, 0 <= N <= M, of the resource ends with success and a
\* destination identical to the resource.
C33_AnyPrefixCompletes ==
    (IsTask /\ FaultFree /\ fpc = "done") =>
        /\ fetch_result = "True"
        /\ filepath = File(resource)

\* C34: bytes are appended after the bytes of the provisional file only
\* when the response is the byte range that was asked for, so that the
\* provisional file followed by the rest of the body is the resource, and
\* a destination this transfer produced is the resource, with nothing
\* duplicated or out of place, whether or not the endpoint honours ranges.
C34_AppendOnlyTheRequestedRange ==
    /\ (fpc = "streaming" /\ mode = "ab") =>
          Bytes(temp_filepath) \o body = resource
    /\ filepath # filepath0 => filepath = File(resource)


(***************************************************************************)
(* More properties of the Session Manager (SpecAuth)                       *)
(***************************************************************************)

\* An operation of the manager has returned.
OperationReturned == auth_call # None /\ apc = "idle"

\* C35: after every operation of the Session Manager has returned, with
\* success or with failure, the Transport Client holds the manager's
\* access token and device id, and its session sends those two.
C35_ClientHoldsManagerCredentials ==
    OperationReturned =>
        /\ api_access_token = auth_access_token
        /\ api_device_id = auth_device_id
        /\ session_headers =
              [token |-> auth_access_token, device |-> auth_device_id]

\* C39: a load_credentials call that returns failure leaves the manager's
\* access token, refresh token and device id as they were before it.
C39_FailedLoadChangesNothing ==
    (OperationReturned /\ auth_call = "load_credentials"
                       /\ auth_result = "False") =>
        /\ auth_access_token = pre[1].access_token
        /\ auth_refresh_token = pre[1].refresh_token
        /\ auth_device_id = pre[1].device_id


(***************************************************************************)
(* More properties of a download run (SpecRun)                             *)
(***************************************************************************)

\* C36: when ensure_authenticated fails at the creation of the downloader,
\* a collection download makes no listing request, starts no preparation
\* or transfer, writes neither the catalog snapshot nor the run metadata,
\* and the run is reported as failed.
C36_NothingDoneWithoutAuthentication ==
    (input_type = "podcast" /\ run_pc # "start" /\ ~has_api) =>
        /\ ~listing_requested
        /\ bpc = "off"
        /\ transfer_log = <<>>
        /\ data_file = Absent
        /\ metadata_file = Absent
        /\ run_pc = "exit" => exit_status = "1"


(***************************************************************************)
(* Further properties of the Catalog Harvester (Spec)                      *)
(***************************************************************************)

\* C37: whenever max_items is supplied, zero and negative values included,
\* collect() returns at most max(max_items, 0) items.
C37_AtMostMaxItems ==
    (Harvested /\ max_episodes # Nothing) =>
        Len(all_episodes) <=
            (IF max_episodes[1] > 0 THEN max_episodes[1] ELSE 0)

\* With max_items >= 1 the loop goes on only while fewer than max_items
\* items are held, and has made at most max_items page requests.
BoundedByMaxItems ==
    (max_episodes # Nothing /\ max_episodes[1] >= 1) =>
        /\ page_count <= max_episodes[1]
        /\ Len(requests_log) <= max_episodes[1]
        /\ hpc = "loop" => Len(all_episodes) < max_episodes[1]

\* Without max_items the loop ends with the first request that fails or
\* returns an empty page or a page shorter than the page size requested.
StopsAtFirstEndSignal ==
    max_episodes = Nothing =>
        \A i \in 1..Len(requests_log) :
            (\/ requests_log[i].outcome # "ok"
             \/ Len(requests_log[i].page) < requests_log[i].payload.limit)
                => (i = Len(requests_log) /\ hpc # "loop")

\* C38: with max_items >= 1 collect() terminates whatever the server
\* returns, after at most max_items page requests; without max_items it
\* terminates as soon as the server returns a failure, an empty page or a
\* short page.
C38_HarvestTerminates == BoundedByMaxItems /\ StopsAtFirstEndSignal

====
